---- MODULE Spec2Model ----
(***************************************************************************)
(* SlackTime: the envelope client (slack_time/api.py) and the groupings    *)
(* built from it (slack_time/__init__.py, slack_time/methods/*.py).        *)
(*                                                                         *)
(* Python values are modelled as tagged records (None, PyStr, PyInt,      *)
(* PyDict), strings as sequences of text chunks in which every "/" is a    *)
(* chunk of its own, classes as records naming their module, their name    *)
(* and their bases.  A call of _get/_post blocks on the transport: the     *)
(* model has one action for the part of the call up to the transport       *)
(* request and one for each way the transport ends the round trip, which   *)
(* runs the rest of _request and of the decorator's wrapper.               *)
(***************************************************************************)
EXTENDS Integers, Sequences, FiniteSets, TLC

VARIABLES objs, types, pc, method, invoked, call, requested, wire, answer, resp,
          outcome, result, ret, threads

vars == <<objs, types, pc, method, invoked, call, requested, wire, answer, resp,
          outcome, result, ret, threads>>

---------------------------------------------------------------------------
(* Bounds                                                                  *)

MaxSegments == 2        \* "/"-separated segments of a request path
MaxOptions == 2         \* named per-call options (**kwargs) of one call
MaxCodes == 2           \* distinct error codes the server reports
MaxTypes == 2           \* exception classes built by the wrapper in one run
MaxClients == 2         \* clients constructed in one run
MaxThreads == 2         \* threads that access groupings concurrently
MaxAccesses == 2        \* accesses of groupings by one thread

---------------------------------------------------------------------------
(* Python values                                                           *)

None == [NoneType |-> "None"]
PyStr(s) == [str |-> s]
PyInt(n) == [int |-> n]
PyDict(d) == [dict |-> d]
PyBool(b) == [bool |-> b]
Session(n) == [Session |-> n]
\* an open binary read stream on the file of a path, or one the caller opened
Stream(source) == [stream |-> source, mode |-> "rb", closed |-> FALSE]

\* a stream with the state the caller left it in
Handle(source, mode, closed) == [stream |-> source, mode |-> mode, closed |-> closed]
\* pathlib.Path(p), an os.PathLike
PyPath(p) == [PathLike |-> p]
PyList(items) == [list |-> items]
PyTuple(items) == [tuple |-> items]
\* a set, its elements in the order its iteration gives them
PySet(items) == [set |-> items]
\* a float, by its repr
PyFloat(r) == [float |-> r]
PyBytes(b) == [bytes |-> b]

IsStr(v) == DOMAIN v = {"str"}
IsPathLike(v) == DOMAIN v = {"PathLike"}
IsStream(v) == "stream" \in DOMAIN v

\* Python truth value of the values the model uses
Truthy(v) ==
    CASE DOMAIN v = {"NoneType"} -> FALSE
      [] DOMAIN v = {"str"} -> v.str # <<>>
      [] DOMAIN v = {"int"} -> v.int # 0
      [] DOMAIN v = {"bool"} -> v.bool
      [] DOMAIN v = {"dict"} -> DOMAIN v.dict # {}
      [] DOMAIN v = {"list"} -> v.list # <<>>
      [] OTHER -> TRUE

\* dict.setdefault(key, default) on a keyword dict
SetDefault(kw, key, default) ==
    IF key \in DOMAIN kw THEN kw ELSE kw @@ (key :> default)

\* s is a contiguous part of t
Contains(t, s) ==
    \E i \in 0..(Len(t) - Len(s)) : SubSeq(t, i + 1, i + Len(s)) = s

\* str.rsplit("/", maxsplit=1).pop(): what follows the last "/"
RSplitPop(s) ==
    LET slashes == {i \in 1..Len(s) : s[i] = "/"}
    IN  IF slashes = {} THEN s
        ELSE LET last == CHOOSE i \in slashes : \A j \in slashes : j <= i
             IN  SubSeq(s, last + 1, Len(s))

---------------------------------------------------------------------------
(* Classes and exceptions                                                  *)

Class(module, name, bases) == [module |-> module, name |-> name, bases |-> bases]

ExceptionCls == Class("builtins", <<"Exception">>, <<>>)
TypeErrorCls == Class("builtins", <<"TypeError">>, <<ExceptionCls>>)
KeyErrorCls == Class("builtins", <<"KeyError">>, <<ExceptionCls>>)
ValueErrorCls == Class("builtins", <<"ValueError">>, <<ExceptionCls>>)
ConnectionErrorCls == Class("requests.exceptions", <<"ConnectionError">>, <<ExceptionCls>>)
TimeoutCls == Class("requests.exceptions", <<"Timeout">>, <<ExceptionCls>>)
AssertionErrorCls == Class("builtins", <<"AssertionError">>, <<ExceptionCls>>)
OSErrorCls == Class("builtins", <<"OSError">>, <<ExceptionCls>>)
FileNotFoundErrorCls == Class("builtins", <<"FileNotFoundError">>, <<OSErrorCls>>)

SlackError == Class("slack_time.api", <<"SlackError">>, <<ExceptionCls>>)
UtilsSlackError == Class("slack_time.utils", <<"SlackError">>, <<ExceptionCls>>)
\* the name SlackError of the package slack_time
ExportedSlackError == UtilsSlackError

RECURSIVE IsSubclass(_, _)
IsSubclass(c, d) ==
    \/ c = d
    \/ \E i \in 1..Len(c.bases) : IsSubclass(c.bases[i], d)

Exc(cls, msg) == [cls |-> cls, msg |-> msg]

---------------------------------------------------------------------------
(* Inputs                                                                  *)

SLACK_API_BASE_URL == <<"https:", "/", "/", "slack.com", "/", "api">>
SLACK_DOC_BASE_URL == <<"https:", "/", "/", "api.slack.com", "/", "methods", "/">>

SegmentNames == <<"auth.test", "hello", "chat.postMessage", "x">>

\* the path of n segments: "auth.test", "auth.test/hello", ...
RECURSIVE PathOf(_)
PathOf(n) ==
    IF n = 1 THEN <<SegmentNames[1]>>
    ELSE PathOf(n - 1) \o <<"/", SegmentNames[n]>>

Paths == {PathOf(n) : n \in 1..MaxSegments}

CodeNames == <<"silly", "channel_not_found", "not_authed">>
Codes == {PyStr(<<CodeNames[i]>>) : i \in 1..MaxCodes}

Tokens == {PyStr(<<"T">>)}
Sessions == {None, Session(1)}

\* transport settings of a client: the defaults, or proxies and a timeout
Settings ==
    {[proxies |-> None, timeout |-> PyInt(10)],
     [proxies |-> PyDict("http" :> PyStr(<<"10.10.10.10">>)), timeout |-> PyInt(60)]}

\* the payload an endpoint method builds, or no payload at all
Payloads == {None, PyDict("token" :> PyStr(<<"T">>))}

\* values a caller may give to a named per-call option
OptionValues(key) ==
    CASE key = "timeout" -> {None, PyInt(5)}
      [] key = "proxies" -> {None, PyDict("https" :> PyStr(<<"10.11.12.13">>))}
      [] key = "params" -> {PyDict("hello" :> PyStr(<<"world">>))}
      [] key = "data" -> {PyDict("hello" :> PyStr(<<"world">>))}
      [] OTHER -> {PyStr(<<"y">>)}

OptionKeys == {"timeout", "proxies", "params", "data", "x"}

\* every **kwargs naming at most MaxOptions options
Kwargs ==
    UNION {{kw \in [K -> UNION {OptionValues(k) : k \in K}] :
                \A k \in K : kw[k] \in OptionValues(k)} :
           K \in {S \in SUBSET OptionKeys : Cardinality(S) <= MaxOptions}}

\* the **kwargs of the endpoint methods' callers: none, or one extra option
PlainKwargs == {kw \in Kwargs : DOMAIN kw \subseteq {"x"}}

\* decoded response bodies: the keys "ok" and "error" may each be missing
Body(ok, error) ==
    [k \in (IF ok = <<>> THEN {} ELSE {"ok"}) \cup
           (IF error = <<>> THEN {} ELSE {"error"}) |->
        IF k = "ok" THEN ok[1] ELSE error[1]]

Bodies ==
    {Body(ok, error) :
        ok \in {<<>>, <<TRUE>>, <<FALSE>>},
        error \in {<<>>} \cup {<<e>> : e \in {None} \cup Codes}}

\* what the server sends back: a JSON body or something that is not JSON
Contents == {[json |-> b] : b \in Bodies} \cup {[text |-> "<html>"]}

TransportErrors == {ConnectionErrorCls, TimeoutCls}

\* HTTP status codes of the transport's responses
Statuses == {200, 429, 500}

\* what the server sends back, with or without a response header
ContentsWithHeaders ==
    Contents \cup {c @@ [headers |-> <<"Retry-After">>] : c \in Contents}

---------------------------------------------------------------------------
(* SlackAPI                                                                *)

RequestsModule == [module |-> "requests"]

\* SlackAPI.__init__
SlackAPI(cls, token, session, proxies, timeout) ==
    [cls |-> cls, token |-> token, session |-> session,
     proxies |-> proxies, timeout |-> timeout, cache |-> <<>>]

\* params, were it to leave the session out
ParamsNoSession(self) ==
    [token |-> self.token, session |-> None,
     proxies |-> self.proxies, timeout |-> self.timeout]

\* params, were it to give the default settings of __init__
ParamsDefaults(self) ==
    [token |-> self.token, session |-> self.session,
     proxies |-> None, timeout |-> PyInt(10)]

\* SlackAPI.params
Params(self) ==
    [token |-> self.token, session |-> self.session,
     proxies |-> self.proxies, timeout |-> self.timeout]

\* make_url, were it to join the base and the path with nothing between
MakeUrlJoined(self, path) == SLACK_API_BASE_URL \o path

\* SlackAPI.make_url
MakeUrl(self, path) == SLACK_API_BASE_URL \o <<"/">> \o path

\* _request, were it to take the instance's setting whenever the option's
\* value is falsy (kwargs.get(key) or default)
RequestKwargsOr(self, kwargs) ==
    [k \in DOMAIN kwargs \cup {"timeout", "proxies"} |->
        IF k \in DOMAIN kwargs /\ (k \notin {"timeout", "proxies"} \/ Truthy(kwargs[k]))
        THEN kwargs[k]
        ELSE IF k = "timeout" THEN self.timeout ELSE self.proxies]

\* the keyword arguments _request hands to the transport
RequestKwargs(self, kwargs) ==
    SetDefault(SetDefault(kwargs, "timeout", self.timeout), "proxies", self.proxies)

\* the object _request issues the request through
ClientOf(self) == IF Truthy(self.session) THEN self.session ELSE RequestsModule

\* _post, were it to place the payload as _get does
VerbKwargsParams(verb, payload, kwargs) == SetDefault(kwargs, "params", payload)

\* the keyword arguments _get and _post hand to _request
VerbKwargs(verb, payload, kwargs) ==
    SetDefault(kwargs, IF verb = "get" THEN "params" ELSE "data", payload)

\* the rest of _request, were it to call resp.raise_for_status() first
DecorateRaisesForStatus(raw) ==
    IF raw.status >= 400
    THEN [kind |-> "raise",
          exc |-> Exc(Class("requests.exceptions", <<"HTTPError">>, <<ExceptionCls>>),
                      <<"Error for url">>)]
    ELSE IF "json" \notin DOMAIN raw.content
    THEN [kind |-> "raise", exc |-> Exc(ValueErrorCls, <<"Expecting value">>)]
    ELSE LET body == raw.content.json
         IN  IF "ok" \notin DOMAIN body
             THEN [kind |-> "raise", exc |-> Exc(KeyErrorCls, <<"'ok'">>)]
             ELSE [kind |-> "return",
                   value |-> [id |-> raw.id, status |-> raw.status,
                              body |-> body,
                              successful |-> body["ok"],
                              error |-> IF "error" \in DOMAIN body
                                        THEN body["error"] ELSE None]]

\* the rest of _request once the transport has returned raw: the envelope,
\* or the error that the decoding of the body raises
Decorate(raw) ==
    IF "json" \notin DOMAIN raw.content
    THEN [kind |-> "raise", exc |-> Exc(ValueErrorCls, <<"Expecting value">>)]
    ELSE LET body == raw.content.json
         IN  IF "ok" \notin DOMAIN body
             THEN [kind |-> "raise", exc |-> Exc(KeyErrorCls, <<"'ok'">>)]
             ELSE [kind |-> "return",
                   value |-> [id |-> raw.id, status |-> raw.status,
                              body |-> body,
                              successful |-> body["ok"],
                              error |-> IF "error" \in DOMAIN body
                                        THEN body["error"] ELSE None]]

\* the message of the exception the wrapper raises
ErrorMessage(path, error) ==
    LET url == SLACK_API_BASE_URL \o <<"/">> \o path
        doc == SLACK_DOC_BASE_URL \o RSplitPop(url)
    IN  <<"You tried to perform a request to ">> \o url \o <<". \n">>
        \o <<"The server returned a '">> \o error.str \o <<"' response. ">>
        \o <<"Find out more at: ">> \o doc \o <<"#errors">>

\* the wrapper, were it to raise the base class under its own name
ErrorTypeBase(error, serial) == Class("slack_time.api", <<"SlackError">>, <<ExceptionCls>>)

\* type(resp.error, (SlackError,), {}): every evaluation builds a new class
\* object; serial tells the classes built in one run apart
ErrorType(error, serial) ==
    [module |-> "slack_time.api", name |-> error.str, bases |-> <<SlackError>>,
     serial |-> serial]

\* the wrapper, were it to test resp.error instead of resp.successful
RaiseOnErrorField(path, r, serial) ==
    IF r.error # None
    THEN IF ~IsStr(r.error)
         THEN [kind |-> "raise",
               exc |-> Exc(TypeErrorCls, <<"type.__new__() argument 1 must be str, not None">>)]
         ELSE [kind |-> "raise",
               exc |-> Exc(ErrorType(r.error, serial), ErrorMessage(path, r.error))]
    ELSE [kind |-> "return", value |-> r]

\* wrapper of raise_exception_on_error_from_server, applied to what the
\* decorated function returned
RaiseOnError(path, r, serial) ==
    IF ~r.successful
    THEN IF ~IsStr(r.error)
         THEN [kind |-> "raise",
               exc |-> Exc(TypeErrorCls, <<"type.__new__() argument 1 must be str, not None">>)]
         ELSE [kind |-> "raise",
               exc |-> Exc(ErrorType(r.error, serial), ErrorMessage(path, r.error))]
    ELSE [kind |-> "return", value |-> r]

\* the call, were it to wrap what is raised below it in a SlackError
PropagatedWrapped(exc) == [kind |-> "raise", exc |-> Exc(SlackError, exc.msg)]

\* an exception raised below _request or the wrapper: neither has a
\* try/except, so it reaches the caller as it is
Propagated(exc) == [kind |-> "raise", exc |-> exc]

---------------------------------------------------------------------------
(* Groupings                                                               *)

\* the groupings of a class, by accessor name
Groupings(cls) ==
    CASE cls = "SlackTime" ->
            ("chat" :> "Chat") @@ ("files" :> "Files") @@ ("users" :> "Users")
      [] cls = "Chat" -> ("scheduled_messages" :> "ScheduledMessages")
      [] cls = "Files" -> ("remote" :> "Remote")
      [] OTHER -> <<>>

---------------------------------------------------------------------------
(* Endpoint methods                                                        *)

\* the files that exist where the program runs
ExistingFiles == {<<"photo.png">>}

\* the path a str or an os.PathLike names
PathNamed(file) == IF IsStr(file) THEN file.str ELSE file.PathLike

\* open(path, "rb")
Open(path) ==
    IF path \in ExistingFiles
    THEN [kind |-> "return", value |-> Stream(path)]
    ELSE [kind |-> "raise",
          exc |-> Exc(FileNotFoundErrorCls, <<"No such file or directory: ">> \o path)]

\* make_file, were it to open only the paths given as str
MakeFileStrOnly(file) ==
    IF IsStr(file) THEN Open(PathNamed(file)) ELSE [kind |-> "return", value |-> file]

\* utils.make_file: a path, str or os.PathLike, is opened for binary
\* reading, anything else is handed back as it is
MakeFile(file) ==
    IF IsStr(file) \/ IsPathLike(file)
    THEN Open(PathNamed(file))
    ELSE [kind |-> "return", value |-> file]

\* isinstance(param, collections.abc.Iterable), of the values the helpers
\* are called with here
IsIterable(v) ==
    \/ DOMAIN v \in {{"str"}, {"list"}, {"tuple"}, {"set"}, {"dict"}, {"bytes"}}

\* the keys of a dict in the order its iteration gives them
RECURSIVE DictKeys(_)
DictKeys(d) ==
    IF DOMAIN d = {} THEN <<>>
    ELSE LET k == CHOOSE k \in DOMAIN d : TRUE
         IN  <<k>> \o DictKeys([j \in DOMAIN d \ {k} |-> d[j]])

\* what iter(v) yields: the elements of a list, tuple or set, the keys of
\* a dict, the bytes of a bytes as int, the characters of a str
Iterate(v) ==
    CASE DOMAIN v = {"list"} -> v.list
      [] DOMAIN v = {"tuple"} -> v.tuple
      [] DOMAIN v = {"set"} -> v.set
      [] DOMAIN v = {"dict"} ->
            LET keys == DictKeys(v.dict) IN [i \in 1..Len(keys) |-> PyStr(<<keys[i]>>)]
      [] DOMAIN v = {"bytes"} -> [i \in 1..Len(v.bytes) |-> PyInt(v.bytes[i])]
      [] DOMAIN v = {"str"} -> [i \in 1..Len(v.str) |-> PyStr(<<v.str[i]>>)]

\* the texts in texts with sep between each two of them
RECURSIVE JoinTexts(_, _)
JoinTexts(sep, texts) ==
    IF texts = <<>> THEN <<>>
    ELSE IF Len(texts) = 1 THEN texts[1]
    ELSE texts[1] \o sep \o JoinTexts(sep, Tail(texts))

\* sep.join(items): TypeError unless every item is a str
StrJoin(sep, items) ==
    IF \A i \in 1..Len(items) : IsStr(items[i])
    THEN [kind |-> "return",
          value |-> PyStr(JoinTexts(sep, [i \in 1..Len(items) |-> items[i].str]))]
    ELSE [kind |-> "raise",
          exc |-> Exc(TypeErrorCls, <<"sequence item: expected str instance">>)]

\* comma_separated_string, were it to join whatever is iterable, a str
\* included
CommaSeparatedStringJoinsAll(param) ==
    IF IsIterable(param)
    THEN StrJoin(<<",">>, Iterate(param))
    ELSE [kind |-> "raise",
          exc |-> Exc(TypeErrorCls, <<"A comma separated string must be passed">>)]

\* utils.comma_separated_string
CommaSeparatedString(param) ==
    IF IsStr(param)
    THEN [kind |-> "return", value |-> param]
    ELSE IF IsIterable(param)
    THEN StrJoin(<<",">>, Iterate(param))
    ELSE [kind |-> "raise",
          exc |-> Exc(TypeErrorCls, <<"A comma separated string must be passed">>)]

\* json.dumps can encode v: None, bool, int, float, str, and the lists,
\* tuples and dicts of such
RECURSIVE Serializable(_)
Serializable(v) ==
    CASE DOMAIN v \in {{"NoneType"}, {"bool"}, {"int"}, {"float"}, {"str"}} -> TRUE
      [] DOMAIN v = {"list"} -> \A i \in 1..Len(v.list) : Serializable(v.list[i])
      [] DOMAIN v = {"tuple"} -> \A i \in 1..Len(v.tuple) : Serializable(v.tuple[i])
      [] DOMAIN v = {"dict"} -> \A k \in DOMAIN v.dict : Serializable(v.dict[k])
      [] OTHER -> FALSE

\* the text json.dumps gives for a value it can encode, with its default
\* separators; the strings used here need no escape
RECURSIVE JsonText(_)
JsonText(v) ==
    CASE DOMAIN v = {"NoneType"} -> <<"null">>
      [] DOMAIN v = {"bool"} -> IF v.bool THEN <<"true">> ELSE <<"false">>
      [] DOMAIN v = {"int"} -> <<ToString(v.int)>>
      [] DOMAIN v = {"float"} -> <<v.float>>
      [] DOMAIN v = {"str"} -> <<"\"">> \o v.str \o <<"\"">>
      [] DOMAIN v = {"list"} ->
            <<"[">> \o JoinTexts(<<", ">>, [i \in 1..Len(v.list) |-> JsonText(v.list[i])])
                   \o <<"]">>
      [] DOMAIN v = {"tuple"} ->
            <<"[">> \o JoinTexts(<<", ">>, [i \in 1..Len(v.tuple) |-> JsonText(v.tuple[i])])
                   \o <<"]">>
      [] DOMAIN v = {"dict"} ->
            LET keys == DictKeys(v.dict)
            IN  <<"{">> \o JoinTexts(<<", ">>,
                              [i \in 1..Len(keys) |->
                                  <<"\"", keys[i], "\"", ": ">> \o JsonText(v.dict[keys[i]])])
                       \o <<"}">>

\* json.dumps(v)
JsonDumps(v) ==
    IF Serializable(v)
    THEN [kind |-> "return", value |-> PyStr(JsonText(v))]
    ELSE [kind |-> "raise",
          exc |-> Exc(TypeErrorCls, <<"Object is not JSON serializable">>)]

\* make_json_encoded, were it to take a tuple as it takes a list
MakeJsonEncodedSequences(param) ==
    IF IsStr(param)
    THEN [kind |-> "return", value |-> param]
    ELSE IF DOMAIN param \in {{"list"}, {"tuple"}, {"dict"}}
    THEN JsonDumps(param)
    ELSE [kind |-> "raise",
          exc |-> Exc(TypeErrorCls, <<"A JSON-encoded object must be passed">>)]

\* utils.make_json_encoded
MakeJsonEncoded(param) ==
    IF IsStr(param)
    THEN [kind |-> "return", value |-> param]
    ELSE IF DOMAIN param \in {{"list"}, {"dict"}}
    THEN JsonDumps(param)
    ELSE [kind |-> "raise",
          exc |-> Exc(TypeErrorCls, <<"A JSON-encoded object must be passed">>)]

\* endpoint methods: the class, the verb and the path of the endpoint, the
\* required parameters, the optional parameters entered into the payload
\* as they are, and the statements that convert a file, in their order:
\* if <given> is not None: make_file(<file>) goes into the payload under
\* the key <given>, or into the files option
Methods ==
    {[cls |-> "Chat", name |-> "delete", verb |-> "post", path |-> <<"chat.delete">>,
      required |-> {"channel", "ts"}, optional |-> {"as_user"}, converted |-> <<>>],
     [cls |-> "Chat", name |-> "update", verb |-> "post", path |-> <<"chat.update">>,
      required |-> {"channel", "ts"},
      optional |-> {"as_user", "attachments", "blocks", "link_names", "parse", "text"},
      converted |-> <<>>],
     [cls |-> "Users", name |-> "info", verb |-> "get", path |-> <<"users.info">>,
      required |-> {"user"}, optional |-> {"include_locale"}, converted |-> <<>>],
     [cls |-> "Users", name |-> "set_photo", verb |-> "post", path |-> <<"users.setPhoto">>,
      required |-> {}, optional |-> {"crop_w", "crop_x", "crop_y"},
      converted |-> <<[given |-> "image", file |-> "image", into |-> "files"]>>],
     [cls |-> "Remote", name |-> "update", verb |-> "get",
      path |-> <<"files.remote.update">>,
      required |-> {},
      optional |-> {"external_id", "external_url", "file", "filetype", "title"},
      converted |-> <<[given |-> "indexable_file_contents", file |-> "file",
                       into |-> "payload"],
                      [given |-> "preview_image", file |-> "file", into |-> "files"]>>],
     [cls |-> "Remote", name |-> "add", verb |-> "get", path |-> <<"files.remote.add">>,
      required |-> {"external_id", "external_url", "title"},
      optional |-> {"filetype"},
      converted |-> <<[given |-> "indexable_file_contents",
                       file |-> "indexable_file_contents", into |-> "payload"],
                      [given |-> "preview_image", file |-> "indexable_file_contents",
                       into |-> "files"]>>],
     [cls |-> "Files", name |-> "upload", verb |-> "post", path |-> <<"files.upload">>,
      required |-> {},
      optional |-> {"channels", "filename", "filetype", "initial_comment", "thread_ts",
                    "title"},
      converted |-> <<[given |-> "content", file |-> "content", into |-> "payload"],
                      [given |-> "file", file |-> "file", into |-> "files"]>>]}

\* the parameters of a method that are converted to a file
ConvertedParams(m) == {m.converted[i].given : i \in DOMAIN m.converted}

MethodParams(m) == m.required \cup m.optional \cup ConvertedParams(m)

\* values a caller may give to a parameter; None is the default of the
\* optional ones
ArgValues(param) ==
    CASE param = "channel" -> {PyStr(<<"C1">>)}
      [] param = "ts" -> {PyStr(<<"1401383885.000061">>)}
      [] param = "user" -> {PyStr(<<"U1">>)}
      [] param \in {"as_user", "include_locale"} -> {None, PyBool(FALSE), PyBool(TRUE)}
      [] param \in {"crop_w", "crop_x", "crop_y"} -> {None, PyInt(0)}
      [] param = "image" ->
            {None, PyStr(<<"photo.png">>), PyStr(<<"missing.png">>), Stream(<<"caller">>)}
      [] param = "external_id" -> {None, PyInt(1)}
      [] param = "external_url" -> {None, PyStr(<<"http:", "/", "/", "example.com">>)}
      [] param = "file" -> {None, PyStr(<<"F1">>), PyStr(<<"photo.png">>)}
      [] param = "filetype" -> {None, PyStr(<<"png">>)}
      [] param = "title" -> {None, PyStr(<<"Title">>)}
      [] param = "indexable_file_contents" -> {None, Stream(<<"contents">>)}
      [] param = "preview_image" ->
            {None, Stream(<<"preview">>), PyStr(<<"photo.png">>)}
      [] param = "attachments" ->
            {None, PyList(<<>>), PyList(<<PyDict("text" :> PyStr(<<"text-world">>))>>)}
      [] param = "blocks" -> {None, PyList(<<>>)}
      [] param = "link_names" -> {None, PyBool(FALSE)}
      [] param = "parse" -> {None, PyStr(<<"none">>)}
      [] param = "text" -> {None, PyStr(<<>>), PyStr(<<"Hello world">>)}
      [] param = "channels" -> {None, PyStr(<<"C1", ",", "C2">>)}
      [] param = "content" ->
            {None, PyStr(<<"photo.png">>), PyStr(<<"missing.png">>), Stream(<<"contents">>)}
      [] param = "filename" -> {None, PyStr(<<"foo.txt">>)}
      [] param = "initial_comment" -> {None, PyStr(<<"Best!">>)}
      [] param = "thread_ts" -> {None, PyFloat("1234567890.123456")}

\* every way of giving values to the parameters in params
RECURSIVE ArgsOver(_)
ArgsOver(params) ==
    IF params = {} THEN {<<>>}
    ELSE LET q == CHOOSE q \in params : TRUE
         IN  {(q :> v) @@ rest : v \in ArgValues(q), rest \in ArgsOver(params \ {q})}

\* every way of calling each method
Args == [m \in Methods |-> ArgsOver(MethodParams(m))]

\* the ways of calling each method that supply at most one of the optional
\* parameters no statement converts
FewArgs ==
    [m \in Methods |->
        {args \in Args[m] : Cardinality({q \in m.optional : args[q] # None}) <= 1}]

\* the payload, were an optional parameter entered only if it is truthy
PayloadOfTruthy(self, m, args) ==
    PyDict([k \in {"token"} \cup m.required \cup {q \in m.optional : Truthy(args[q])} |->
               IF k = "token" THEN self.token ELSE args[k]])

\* payload = {"token": self._token, <required>} followed by
\* if <optional> is not None: payload[<optional>] = <optional>
PayloadOf(self, m, args) ==
    PyDict([k \in {"token"} \cup m.required \cup {q \in m.optional : args[q] # None} |->
               IF k = "token" THEN self.token ELSE args[k]])

\* the conversions, were a file that cannot be opened left out of the call
RECURSIVE ConvertedLenient(_, _, _)
ConvertedLenient(steps, args, built) ==
    IF steps = <<>> THEN built
    ELSE LET s == Head(steps)
             f == MakeFile(args[s.file])
         IN  IF args[s.given] = None \/ f.kind = "raise"
             THEN ConvertedLenient(Tail(steps), args, built)
             ELSE ConvertedLenient(Tail(steps), args,
                     IF s.into = "payload"
                     THEN [built EXCEPT !.payload = PyDict((s.given :> f.value) @@ @.dict)]
                     ELSE [built EXCEPT !.kwargs =
                              ("files" :> PyDict("file" :> f.value)) @@ @])

\* the statements that convert a file, applied in their order to the call
\* built so far; what make_file raises ends the method
RECURSIVE Converted(_, _, _)
Converted(steps, args, built) ==
    IF steps = <<>> THEN built
    ELSE LET s == Head(steps)
         IN  IF args[s.given] = None
             THEN Converted(Tail(steps), args, built)
             ELSE LET f == MakeFile(args[s.file])
                  IN  IF f.kind = "raise"
                      THEN Propagated(f.exc)
                      ELSE Converted(Tail(steps), args,
                              IF s.into = "payload"
                              THEN [built EXCEPT !.payload =
                                       PyDict((s.given :> f.value) @@ @.dict)]
                              ELSE [built EXCEPT !.kwargs =
                                       ("files" :> PyDict("file" :> f.value)) @@ @])

\* the body of an endpoint method up to its return statement: the payload
\* and the options of its _get/_post call, or the error make_file raises
MethodBuild(self, m, args, kwargs) ==
    Converted(m.converted, args,
              [kind |-> "call", payload |-> PayloadOf(self, m, args), kwargs |-> kwargs])

\* the **kwargs of a caller of an endpoint method: at most one option
MethodKwargs ==
    {kw \in Kwargs : Cardinality(DOMAIN kw) <= 1 /\ DOMAIN kw \subseteq {"x", "params", "data"}}

---------------------------------------------------------------------------
(* State machine                                                           *)
(*                                                                         *)
(* objs and types are the program's objects: the clients and groupings,    *)
(* and the exception classes built so far.  The other variables record the *)
(* operation in progress or just ended: the endpoint method and the        *)
(* _get/_post calls it made, the _get/_post call, the _request calls and   *)
(* transport requests it made, the transport's answer, the envelope, what  *)
(* the call and the method returned or raised, and what an operation       *)
(* without transport returned.  Every operation starts by dropping the     *)
(* record of the one before.                                               *)

NoMethod == [name |-> "none"]
NoCall == [op |-> "none"]
NoAnswer == [kind |-> "none"]
NoResp == [id |-> 0]
NoOutcome == [kind |-> "none"]
\* only the main thread runs
NoThreads == [guarded |-> TRUE, lock |-> <<>>, of |-> <<>>]
NoRet == [op |-> "none"]

\* SlackTime(token, session, proxies, timeout)
Init ==
    /\ \E token \in Tokens, session \in Sessions, s \in Settings :
          objs = <<SlackAPI("SlackTime", token, session, s.proxies, s.timeout)>>
    /\ types = <<>>
    /\ pc = "idle"
    /\ method = NoMethod
    /\ invoked = <<>>
    /\ call = NoCall
    /\ requested = <<>>
    /\ wire = <<>>
    /\ answer = NoAnswer
    /\ resp = NoResp
    /\ outcome = NoOutcome
    /\ result = NoOutcome
    /\ ret = NoRet
    /\ threads = NoThreads

\* no _get/_post call and no endpoint method is in progress or on record
NoCallRecord ==
    /\ pc' = "idle"
    /\ method' = NoMethod
    /\ invoked' = <<>>
    /\ call' = NoCall
    /\ requested' = <<>>
    /\ wire' = <<>>
    /\ answer' = NoAnswer
    /\ resp' = NoResp
    /\ outcome' = NoOutcome
    /\ result' = NoOutcome

\* the accessor, were its cache kept per class instead of per instance
AccessShared(o, name) ==
    /\ pc # "awaiting"
    /\ name \in DOMAIN Groupings(objs[o].cls)
    /\ LET holders == {h \in 1..Len(objs) :
                          objs[h].cls = objs[o].cls /\ name \in DOMAIN objs[h].cache}
       IN  IF holders # {}
           THEN /\ UNCHANGED objs
                /\ ret' = [op |-> "access", self |-> o, name |-> name,
                           value |-> objs[CHOOSE h \in holders : TRUE].cache[name]]
           ELSE LET p == Params(objs[o])
                    g == SlackAPI(Groupings(objs[o].cls)[name],
                                  p.token, p.session, p.proxies, p.timeout)
                IN  /\ objs' = Append([objs EXCEPT ![o].cache = @ @@ (name :> Len(objs) + 1)], g)
                    /\ ret' = [op |-> "access", self |-> o, name |-> name,
                               value |-> Len(objs) + 1]
    /\ NoCallRecord
    /\ UNCHANGED <<threads, types>>

\* a cached_property accessor of objs[o]: the grouping is built from the
\* parent's params on the first access and kept in the parent's __dict__
Access(o, name) ==
    /\ pc # "awaiting"
    /\ name \in DOMAIN Groupings(objs[o].cls)
    /\ IF name \in DOMAIN objs[o].cache
       THEN /\ UNCHANGED objs
            /\ ret' = [op |-> "access", self |-> o, name |-> name,
                       value |-> objs[o].cache[name]]
       ELSE LET p == Params(objs[o])
                g == SlackAPI(Groupings(objs[o].cls)[name],
                              p.token, p.session, p.proxies, p.timeout)
            IN  /\ objs' = Append([objs EXCEPT ![o].cache = @ @@ (name :> Len(objs) + 1)], g)
                /\ ret' = [op |-> "access", self |-> o, name |-> name,
                           value |-> Len(objs) + 1]
    /\ NoCallRecord
    /\ UNCHANGED <<threads, types>>

\* the accessors that threads race on
ThreadNames == {"chat", "users"}

\* MaxThreads threads are about to access groupings of the one client. The
\* accessor is functools.cached_property where the interpreter has it and
\* property(lru_cache(maxsize=None)(func)) where it does not; guarded says
\* whether the interpreter's descriptor takes a lock around the call of func
\* (functools.cached_property of Python 3.8 to 3.11) or not (the lru_cache
\* fallback before 3.8, functools.cached_property from 3.12)
InitThreads ==
    /\ \E token \in Tokens, session \in Sessions, s \in Settings :
          objs = <<SlackAPI("SlackTime", token, session, s.proxies, s.timeout)>>
    /\ types = <<>>
    /\ pc = "idle"
    /\ method = NoMethod
    /\ invoked = <<>>
    /\ call = NoCall
    /\ requested = <<>>
    /\ wire = <<>>
    /\ answer = NoAnswer
    /\ resp = NoResp
    /\ outcome = NoOutcome
    /\ result = NoOutcome
    /\ ret = NoRet
    /\ \E guarded \in BOOLEAN :
          threads = [guarded |-> guarded,
                     lock |-> [name \in ThreadNames |-> 0],
                     of |-> [t \in 1..MaxThreads |->
                               [pc |-> "idle", self |-> 0, name |-> "", value |-> 0,
                                seen |-> <<>>]]]

\* what a thread's access of objs[o].name returned
Seen(o, name, value) == [self |-> o, name |-> name, value |-> value]

\* thread t reads objs[o].name: the descriptor looks the name up in the
\* cache; on a hit the access returns the kept grouping, on a miss the
\* thread goes on to call func, through the lock if there is one
ThreadLookup(t, o, name) ==
    /\ threads.of[t].pc = "idle"
    /\ Len(threads.of[t].seen) < MaxAccesses
    /\ objs[o].cls = "SlackTime"
    /\ name \in ThreadNames
    /\ threads' =
          IF name \in DOMAIN objs[o].cache
          THEN [threads EXCEPT !.of[t].seen = Append(@, Seen(o, name, objs[o].cache[name]))]
          ELSE [threads EXCEPT !.of[t].pc = IF threads.guarded THEN "locking" ELSE "building",
                               !.of[t].self = o,
                               !.of[t].name = name]
    /\ UNCHANGED <<objs, types, pc, method, invoked, call, requested, wire, answer,
                   resp, outcome, result, ret>>

\* thread t takes the descriptor's lock and looks the name up again: on a
\* hit it lets the lock go and returns the kept grouping
ThreadAcquire(t) ==
    LET th == threads.of[t]
    IN  /\ th.pc = "locking"
        /\ threads.lock[th.name] = 0
        /\ threads' =
              IF th.name \in DOMAIN objs[th.self].cache
              THEN [threads EXCEPT !.of[t].pc = "idle",
                                   !.of[t].seen =
                                       Append(@, Seen(th.self, th.name,
                                                      objs[th.self].cache[th.name]))]
              ELSE [threads EXCEPT !.of[t].pc = "building", !.lock[th.name] = t]
        /\ UNCHANGED <<objs, types, pc, method, invoked, call, requested, wire, answer,
                       resp, outcome, result, ret>>

\* thread t calls func(instance): the grouping is built from the parent's
\* params
ThreadBuild(t) ==
    LET th == threads.of[t]
        p == Params(objs[th.self])
        g == SlackAPI(Groupings(objs[th.self].cls)[th.name],
                      p.token, p.session, p.proxies, p.timeout)
    IN  /\ th.pc = "building"
        /\ objs' = Append(objs, g)
        /\ threads' = [threads EXCEPT !.of[t].pc = "storing",
                                      !.of[t].value = Len(objs) + 1]
        /\ UNCHANGED <<types, pc, method, invoked, call, requested, wire, answer,
                       resp, outcome, result, ret>>

\* thread t keeps the grouping it built under the name, over whatever is
\* kept there, lets the lock go if it holds it, and returns its grouping
ThreadStore(t) ==
    LET th == threads.of[t]
    IN  /\ th.pc = "storing"
        /\ objs' = [objs EXCEPT ![th.self].cache = (th.name :> th.value) @@ @]
        /\ threads' = [threads EXCEPT
                           !.of[t].pc = "idle",
                           !.of[t].seen = Append(@, Seen(th.self, th.name, th.value)),
                           !.lock[th.name] = IF @ = t THEN 0 ELSE @]
        /\ UNCHANGED <<types, pc, method, invoked, call, requested, wire, answer,
                       resp, outcome, result, ret>>

\* _get / _post up to the transport request of _request
Start(verb, o, path, payload, kwargs) ==
    /\ pc # "awaiting"
    /\ Len(types) < MaxTypes
    /\ LET self == objs[o]
           url == MakeUrl(self, path)
           rkw == VerbKwargs(verb, payload, kwargs)
       IN  /\ call' = [op |-> verb, self |-> o, path |-> path,
                       payload |-> payload, kwargs |-> kwargs]
           /\ requested' = <<[method |-> verb, url |-> url, kwargs |-> rkw]>>
           /\ wire' = <<[client |-> ClientOf(self), method |-> verb, url |-> url,
                         kwargs |-> RequestKwargs(self, rkw)]>>
    /\ pc' = "awaiting"
    /\ answer' = NoAnswer
    /\ resp' = NoResp
    /\ outcome' = NoOutcome
    /\ result' = NoOutcome
    /\ ret' = NoRet
    /\ UNCHANGED <<threads, objs, types>>

\* a direct call of _get
Get(o, path, payload, kwargs) ==
    /\ Start("get", o, path, payload, kwargs)
    /\ method' = NoMethod
    /\ invoked' = <<>>

\* a direct call of _post
Post(o, path, payload, kwargs) ==
    /\ Start("post", o, path, payload, kwargs)
    /\ method' = NoMethod
    /\ invoked' = <<>>

\* a direct call of _request up to its transport request
Request(o, verb, url, kwargs) ==
    /\ pc # "awaiting"
    /\ Len(types) < MaxTypes
    /\ call' = [op |-> "request", self |-> o, method |-> verb, url |-> url,
                kwargs |-> kwargs]
    /\ requested' = <<[method |-> verb, url |-> url, kwargs |-> kwargs]>>
    /\ wire' = <<[client |-> ClientOf(objs[o]), method |-> verb, url |-> url,
                  kwargs |-> RequestKwargs(objs[o], kwargs)]>>
    /\ pc' = "awaiting"
    /\ method' = NoMethod
    /\ invoked' = <<>>
    /\ answer' = NoAnswer
    /\ resp' = NoResp
    /\ outcome' = NoOutcome
    /\ result' = NoOutcome
    /\ ret' = NoRet
    /\ UNCHANGED <<threads, objs, types>>

\* an endpoint method of objs[o]: it builds the payload and calls _get or
\* _post, unless make_file raises first
MethodCall(o, m, args, kwargs) ==
    /\ pc # "awaiting"
    /\ objs[o].cls = m.cls
    /\ method' = [cls |-> m.cls, name |-> m.name, self |-> o, args |-> args,
                  kwargs |-> kwargs]
    /\ LET b == MethodBuild(objs[o], m, args, kwargs)
       IN  IF b.kind = "raise"
           THEN /\ pc' = "idle"
                /\ invoked' = <<>>
                /\ call' = NoCall
                /\ requested' = <<>>
                /\ wire' = <<>>
                /\ answer' = NoAnswer
                /\ resp' = NoResp
                /\ outcome' = NoOutcome
                /\ result' = b
                /\ ret' = NoRet
                /\ UNCHANGED <<threads, objs, types>>
           ELSE /\ Start(m.verb, o, m.path, b.payload, b.kwargs)
                /\ invoked' = <<[op |-> m.verb, path |-> m.path,
                                 payload |-> b.payload, kwargs |-> b.kwargs]>>

\* a call of make_url
MakeUrlCall(o, path) ==
    /\ pc # "awaiting"
    /\ ret' = [op |-> "make_url", self |-> o, path |-> path,
               value |-> MakeUrl(objs[o], path)]
    /\ NoCallRecord
    /\ UNCHANGED <<threads, objs, types>>

\* a read of the property params
ParamsRead(o) ==
    /\ pc # "awaiting"
    /\ ret' = [op |-> "params", self |-> o, value |-> Params(objs[o])]
    /\ NoCallRecord
    /\ UNCHANGED <<threads, objs, types>>

\* SlackTime(token, **kwargs): the defaults of __init__ for what kwargs
\* does not name
SlackTimeOf(token, kwargs) ==
    SlackAPI("SlackTime", token,
             IF "session" \in DOMAIN kwargs THEN kwargs["session"] ELSE None,
             IF "proxies" \in DOMAIN kwargs THEN kwargs["proxies"] ELSE None,
             IF "timeout" \in DOMAIN kwargs THEN kwargs["timeout"] ELSE PyInt(10))

\* a call of utils.make_file
MakeFileCall(file) ==
    /\ pc # "awaiting"
    /\ ret' = [op |-> "make_file", arg |-> file] @@ MakeFile(file)
    /\ NoCallRecord
    /\ UNCHANGED <<threads, objs, types>>

\* a call of utils.comma_separated_string
CommaSeparatedStringCall(param) ==
    /\ pc # "awaiting"
    /\ ret' = [op |-> "comma_separated_string", arg |-> param] @@ CommaSeparatedString(param)
    /\ NoCallRecord
    /\ UNCHANGED <<threads, objs, types>>

\* a call of utils.make_json_encoded
MakeJsonEncodedCall(param) ==
    /\ pc # "awaiting"
    /\ ret' = [op |-> "make_json_encoded", arg |-> param] @@ MakeJsonEncoded(param)
    /\ NoCallRecord
    /\ UNCHANGED <<threads, objs, types>>

\* get_slack_time, were it to refuse only a variable that is not set
GetSlackTimeUnsetOnly(env_var, value, kwargs) ==
    /\ pc # "awaiting"
    /\ value # None =>
          Cardinality({o \in 1..Len(objs) : objs[o].cls = "SlackTime"}) < MaxClients
    /\ IF value = None
       THEN /\ ret' = [op |-> "get_slack_time", env_var |-> env_var, getenv |-> value,
                       kind |-> "raise",
                       exc |-> Exc(AssertionErrorCls,
                                   <<"You must save a '", env_var, "' environment variable">>)]
            /\ UNCHANGED objs
       ELSE /\ ret' = [op |-> "get_slack_time", env_var |-> env_var, getenv |-> value,
                       kind |-> "return", value |-> Len(objs) + 1]
            /\ objs' = Append(objs, SlackTimeOf(value, kwargs))
    /\ NoCallRecord
    /\ UNCHANGED <<threads, types>>

\* get_slack_time(env_var), where os.getenv(env_var) gives value: None when
\* the variable is not set
GetSlackTime(env_var, value, kwargs) ==
    /\ pc # "awaiting"
    /\ Truthy(value) =>
          Cardinality({o \in 1..Len(objs) : objs[o].cls = "SlackTime"}) < MaxClients
    /\ IF ~Truthy(value)
       THEN /\ ret' = [op |-> "get_slack_time", env_var |-> env_var, getenv |-> value,
                       kind |-> "raise",
                       exc |-> Exc(AssertionErrorCls,
                                   <<"You must save a '", env_var, "' environment variable">>)]
            /\ UNCHANGED objs
       ELSE /\ ret' = [op |-> "get_slack_time", env_var |-> env_var, getenv |-> value,
                       kind |-> "return", value |-> Len(objs) + 1]
            /\ objs' = Append(objs, SlackTimeOf(value, kwargs))
    /\ NoCallRecord
    /\ UNCHANGED <<threads, types>>

\* an endpoint method, were it to return the body of the envelope
MethodReturnBody(out) ==
    IF out.kind = "return" THEN [kind |-> "return", value |-> out.value.body] ELSE out

\* what an endpoint method hands on of what its _get/_post call returned
\* or raised: return self._get(...), with no try/except around it
MethodReturn(out) == out

\* what the endpoint method in progress, if any, returns or raises
MethodResult(out) == IF method = NoMethod THEN NoOutcome ELSE MethodReturn(out)

\* _request, were it to try once more when the transport raises
TransportRaisesRetry(e) ==
    /\ pc = "awaiting"
    /\ IF Len(wire) < 2
       THEN /\ wire' = Append(wire, wire[1])
            /\ UNCHANGED <<pc, answer, resp, outcome, result>>
       ELSE /\ pc' = "done"
            /\ answer' = [kind |-> "raise", exc |-> Exc(e, <<"request to ">> \o wire[1].url)]
            /\ resp' = NoResp
            /\ outcome' = Propagated(answer'.exc)
            /\ result' = MethodResult(outcome')
            /\ UNCHANGED wire
    /\ UNCHANGED <<threads, objs, types, method, invoked, call, requested, ret>>

\* _request, were it to give up its session when the transport raises
TransportRaisesDropsSession(e) ==
    /\ pc = "awaiting"
    /\ pc' = "done"
    /\ answer' = [kind |-> "raise", exc |-> Exc(e, <<"request to ">> \o wire[1].url)]
    /\ resp' = NoResp
    /\ outcome' = Propagated(answer'.exc)
    /\ result' = MethodResult(outcome')
    /\ objs' = [objs EXCEPT ![call.self].session = None]
    /\ UNCHANGED <<threads, types, method, invoked, call, requested, wire, ret>>

\* client.request raises: the error leaves _request and the wrapper
TransportRaises(e) ==
    /\ pc = "awaiting"
    /\ pc' = "done"
    /\ answer' = [kind |-> "raise", exc |-> Exc(e, <<"request to ">> \o wire[1].url)]
    /\ resp' = NoResp
    /\ outcome' = Propagated(answer'.exc)
    /\ result' = MethodResult(outcome')
    /\ UNCHANGED <<threads, objs, types, method, invoked, call, requested, wire, ret>>

\* what the call c comes to once the transport has returned raw: _request
\* decodes it and, for _get and _post, the wrapper inspects the envelope
Outcome(c, raw, serial) ==
    LET r == Decorate(raw)
    IN  IF r.kind = "raise" THEN Propagated(r.exc)
        ELSE IF c.op = "request" THEN [kind |-> "return", value |-> r.value]
        ELSE RaiseOnError(c.path, r.value, serial)

\* client.request returns a response: the rest of _request, then the wrapper
TransportReturns(status, content) ==
    /\ pc = "awaiting"
    /\ pc' = "done"
    /\ LET raw == [id |-> Len(wire), status |-> status, content |-> content]
           r == Decorate(raw)
       IN  /\ answer' = [kind |-> "response", raw |-> raw]
           /\ resp' = IF r.kind = "raise" THEN NoResp ELSE r.value
           /\ outcome' = Outcome(call, raw, Len(types) + 1)
    /\ types' = IF outcome'.kind = "raise" /\ "serial" \in DOMAIN outcome'.exc.cls
                THEN Append(types, outcome'.exc.cls) ELSE types
    /\ result' = MethodResult(outcome')
    /\ UNCHANGED <<threads, objs, method, invoked, call, requested, wire, ret>>

\* a direct call of _get or _post on any object, its arguments drawn from
\* paths, payloads and kwargsSet
CallStep(paths, payloads, kwargsSet) ==
    \/ \E o \in 1..Len(objs), path \in paths, payload \in payloads, kwargs \in kwargsSet :
          Get(o, path, payload, kwargs)
    \/ \E o \in 1..Len(objs), path \in paths, payload \in payloads, kwargs \in kwargsSet :
          Post(o, path, payload, kwargs)

\* the transport fails with one of errors or answers with one of contents
TransportStep(errors, contents) ==
    \/ \E e \in errors : TransportRaises(e)
    \/ \E content \in contents : TransportReturns(200, content)

\* a grouping of any object is accessed
AccessStep(names) ==
    \E o \in 1..Len(objs), name \in names : Access(o, name)

\* one step of a caller that accesses groupings and calls _get/_post
Step(paths, payloads, kwargsSet, errors, contents) ==
    \/ AccessStep({"chat", "scheduled_messages"})
    \/ CallStep(paths, payloads, kwargsSet)
    \/ TransportStep(errors, contents)

\* every path and every answer of the transport, calls with few options
Next == Step(Paths, Payloads, PlainKwargs, TransportErrors, Contents)

Spec == Init /\ [][Next]_vars

FewContents ==
    {[json |-> Body(<<TRUE>>, <<>>)],
     [json |-> Body(<<FALSE>>, <<PyStr(<<CodeNames[1]>>)>>)]}

\* calls on the client with every combination of per-call options, one
\* path and few answers
NextOptions ==
    \/ CallStep({PathOf(1)}, Payloads, Kwargs)
    \/ TransportStep({ConnectionErrorCls}, FewContents)

SpecOptions == Init /\ [][NextOptions]_vars

\* an endpoint method of any object is called
MethodStep(methods, kwargsSet) ==
    \E o \in 1..Len(objs), m \in methods :
        \E args \in Args[m], kwargs \in kwargsSet : MethodCall(o, m, args, kwargs)

\* an endpoint method of any object is called, few optional parameters
\* supplied
MethodStepFew(methods, kwargsSet) ==
    \E o \in 1..Len(objs), m \in methods :
        \E args \in FewArgs[m], kwargs \in kwargsSet : MethodCall(o, m, args, kwargs)

\* the endpoint methods, with every choice of their arguments
NextMethods ==
    \/ AccessStep({"chat", "users"})
    \/ MethodStep({m \in Methods : m.name \in {"delete", "info", "set_photo"}},
                  MethodKwargs)
    \/ TransportStep({ConnectionErrorCls}, FewContents)

SpecMethods == Init /\ [][NextMethods]_vars

\* the methods of client.files.remote that convert files, with no
\* per-call option
NextFiles ==
    \/ AccessStep({"files", "remote"})
    \/ MethodStepFew({m \in Methods : m.cls = "Remote"}, {<<>>})
    \/ TransportStep({ConnectionErrorCls}, FewContents)

SpecFiles == Init /\ [][NextFiles]_vars

\* the methods that upload what the caller names: Files.upload and
\* Users.set_photo, answered with success or a transport error
NextUploads ==
    \/ AccessStep({"files", "users"})
    \/ MethodStepFew({m \in Methods : m.name \in {"upload", "set_photo"}}, {<<>>})
    \/ TransportStep({ConnectionErrorCls}, {[json |-> Body(<<TRUE>>, <<>>)]})

SpecUploads == Init /\ [][NextUploads]_vars

\* methods whose optional parameters take falsy values: Chat.update and
\* Users.set_photo, with every choice of their arguments
NextFalsy ==
    \/ AccessStep({"chat", "users"})
    \/ MethodStep({m \in Methods : m.name \in {"update", "set_photo"}
                                    /\ m.cls \in {"Chat", "Users"}}, {<<>>})
    \/ TransportStep({ConnectionErrorCls}, {[json |-> Body(<<TRUE>>, <<>>)]})

SpecFalsy == Init /\ [][NextFalsy]_vars

\* threads that access the groupings of one client, in any interleaving
NextThreads ==
    \/ \E t \in 1..MaxThreads, o \in 1..Len(objs), name \in ThreadNames :
          ThreadLookup(t, o, name)
    \/ \E t \in 1..MaxThreads : ThreadAcquire(t)
    \/ \E t \in 1..MaxThreads : ThreadBuild(t)
    \/ \E t \in 1..MaxThreads : ThreadStore(t)

SpecThreads == InitThreads /\ [][NextThreads]_vars

\* the transport answers with any status code, with or without a header
TransportStatusStep(statuses, contents) ==
    \E status \in statuses, content \in contents : TransportReturns(status, content)

\* calls of _get and _post answered with every status code and body
NextStatus ==
    \/ AccessStep({"chat"})
    \/ CallStep(Paths, {None}, {<<>>})
    \/ TransportStatusStep(Statuses, ContentsWithHeaders)

SpecStatus == Init /\ [][NextStatus]_vars


\* every operation of a client and its groupings, on few arguments
NextAll ==
    \/ AccessStep({"chat", "scheduled_messages"})
    \/ \E o \in 1..Len(objs), path \in Paths : MakeUrlCall(o, path)
    \/ \E o \in 1..Len(objs) : ParamsRead(o)
    \/ \E o \in 1..Len(objs), verb \in {"get", "post"} :
          Request(o, verb, SLACK_API_BASE_URL \o <<"/">> \o PathOf(1), <<>>)
    \/ CallStep({PathOf(1)}, {PyDict("token" :> PyStr(<<"T">>))}, {<<>>})
    \/ MethodStep({m \in Methods : m.name = "delete"}, {<<>>})
    \/ TransportStep({ConnectionErrorCls}, FewContents)

SpecAll == Init /\ [][NextAll]_vars

\* what os.getenv may give: nothing, the empty string, a token
EnvValues == {None, PyStr(<<>>), PyStr(<<"U">>)}

\* the keyword arguments of a caller of get_slack_time
ClientKwargs == {<<>>, ("session" :> Session(2)) @@ ("timeout" :> PyInt(60))}

\* several clients: get_slack_time, the chat grouping of each client, and
\* calls that the transport answers with success or fails
NextClients ==
    \/ \E value \in EnvValues, kwargs \in ClientKwargs :
          GetSlackTime("SLACK_API_TOKEN", value, kwargs)
    \/ AccessStep({"chat"})
    \/ CallStep({PathOf(1)}, {PyDict("token" :> PyStr(<<"T">>))}, {<<>>})
    \/ TransportStep({ConnectionErrorCls}, {[json |-> Body(<<TRUE>>, <<>>)]})

SpecClients == Init /\ [][NextClients]_vars

\* what a caller may hand to make_file: paths that exist or not, as str or
\* os.PathLike, streams open or closed, and what is neither
FileInputs ==
    {PyStr(<<"photo.png">>), PyStr(<<"missing.png">>), PyStr(<<>>),
     PyPath(<<"photo.png">>), PyPath(<<"tmp", "/", "does_not_exist.txt">>),
     Stream(<<"caller">>), Handle(<<"photo.png">>, "rb", FALSE),
     Handle(<<"photo.png">>, "rb", TRUE), Handle(<<"notes.txt">>, "r", FALSE),
     None, PyInt(1)}

\* strings a caller may hand to the helpers: plain, already joined, empty
StrInputs ==
    {PyStr(<<"hello">>), PyStr(<<"hello", ",", "goodbye">>), PyStr(<<"a", ",", "b", ",", "c">>),
     PyStr(<<>>)}

\* sequences of values, by their elements
ItemsInputs ==
    {<<>>, <<PyStr(<<"a">>)>>, <<PyStr(<<"a">>), PyStr(<<"b">>)>>,
     <<PyStr(<<"a">>), PyStr(<<"b">>), PyStr(<<"c", ",", "d">>)>>,
     <<PyInt(1), PyInt(2), PyInt(3)>>, <<PyStr(<<"a">>), PyInt(1)>>,
     <<PyList(<<PyBool(TRUE), None>>), PyDict("text" :> PyStr(<<"hi">>))>>,
     <<PySet(<<PyInt(1)>>)>>}

\* what a caller may hand to comma_separated_string and make_json_encoded
ParamInputs ==
    StrInputs
    \cup {PyList(items) : items \in ItemsInputs}
    \cup {PyTuple(items) : items \in ItemsInputs}
    \cup {PySet(items) : items \in ItemsInputs}
    \cup {PyDict(<<>>), PyDict("a" :> PyStr(<<"b">>)), PyDict("n" :> PyInt(1)),
          PyDict("s" :> PySet(<<>>))}
    \cup {PyInt(1), PyInt(0), PyFloat("1.2"), PyBool(TRUE), PyBool(FALSE),
          PyBytes(<<104, 105>>), None}

\* the conversion helpers of utils.py, called on their own
NextUtils ==
    \/ \E file \in FileInputs : MakeFileCall(file)
    \/ \E param \in ParamInputs : CommaSeparatedStringCall(param)
    \/ \E param \in ParamInputs : MakeJsonEncodedCall(param)

SpecUtils == Init /\ [][NextUtils]_vars

---------------------------------------------------------------------------
(* Properties of _get / _post                                              *)

Finished == pc = "done"
Issued == pc \in {"awaiting", "done"}

\* the transport answered with a body that decodes and has the key "ok"
Decoded ==
    /\ Finished
    /\ answer.kind = "response"
    /\ "json" \in DOMAIN answer.raw.content
    /\ "ok" \in DOMAIN answer.raw.content.json

DecodedBody == answer.raw.content.json

\* body.get("error"), stated on the transport's answer
ReportedError == IF "error" \in DOMAIN DecodedBody THEN DecodedBody["error"] ELSE None

ServerSuccess == Decoded /\ DecodedBody["ok"] = TRUE
ServerFailure == Decoded /\ DecodedBody["ok"] = FALSE

RequestUrl == SLACK_API_BASE_URL \o <<"/">> \o call.path

\* C1: a call whose decoded body has ok == true raises nothing and returns
\* the response object that _request produced for the transport's response,
\* carrying the body, successful == true and the body's error field.
C1_SuccessReturnsEnvelope ==
    ServerSuccess =>
        /\ outcome.kind = "return"
        /\ outcome.value = resp
        /\ resp.id = answer.raw.id
        /\ resp.body = DecodedBody
        /\ resp.successful = TRUE
        /\ resp.error = ReportedError

C1_Witness ==
    /\ ServerSuccess
    /\ outcome.kind = "return"
    /\ "error" \in DOMAIN DecodedBody

\* C2: a call whose decoded body has ok == false and an error code e
\* returns nothing and raises an exception whose type is named e and whose
\* message contains the request URL and e.
C2_FailureRaisesNamedError ==
    (ServerFailure /\ IsStr(ReportedError)) =>
        /\ outcome.kind = "raise"
        /\ outcome.exc.cls.name = ReportedError.str
        /\ Contains(outcome.exc.msg, RequestUrl)
        /\ Contains(outcome.exc.msg, wire[1].url)
        /\ Contains(outcome.exc.msg, ReportedError.str)

C2_Witness ==
    /\ ServerFailure
    /\ IsStr(ReportedError)
    /\ outcome.kind = "raise"
    /\ call.path = PathOf(2)

\* C3: every exception raised for a server-reported failure is an instance
\* of the SlackError that the package slack_time exports.
C3_FailureIsExportedSlackError ==
    ServerFailure =>
        /\ outcome.kind = "raise"
        /\ IsSubclass(outcome.exc.cls, ExportedSlackError)

\* C4: a call whose decoded body has ok == false and no error code raises
\* an error that is a subtype of the base error kind.
C4_MissingCodeRaisesSlackError ==
    (ServerFailure /\ ReportedError = None) =>
        /\ outcome.kind = "raise"
        /\ IsSubclass(outcome.exc.cls, SlackError)

\* C5: the message of every failed call on a path contains the
\* documentation base followed by the path's final segment and "#errors".
C5_FailureMessageHasDocLink ==
    ServerFailure =>
        /\ outcome.kind = "raise"
        /\ \E n \in 1..MaxSegments :
              /\ call.path = PathOf(n)
              /\ Contains(outcome.exc.msg,
                          SLACK_DOC_BASE_URL \o <<SegmentNames[n], "#errors">>)

\* the option in which a verb places the payload
Position(verb) == IF verb = "get" THEN "params" ELSE "data"

C7_DefaultsAndOverrides ==
    Issued =>
        LET given == requested[1].kwargs
            sent == wire[1].kwargs
            self == objs[call.self]
        IN  /\ DOMAIN sent = DOMAIN given \cup {"timeout", "proxies"}
            /\ \A k \in DOMAIN given : sent[k] = given[k]
            /\ "timeout" \notin DOMAIN call.kwargs => sent["timeout"] = self.timeout
            /\ "proxies" \notin DOMAIN call.kwargs => sent["proxies"] = self.proxies
            /\ "timeout" \in DOMAIN call.kwargs => sent["timeout"] = call.kwargs["timeout"]
            /\ "proxies" \in DOMAIN call.kwargs => sent["proxies"] = call.kwargs["proxies"]

C7_Witness ==
    /\ Issued
    /\ "timeout" \in DOMAIN call.kwargs
    /\ call.kwargs["timeout"] = None
    /\ "x" \in DOMAIN call.kwargs
    /\ objs[call.self].timeout = PyInt(60)
    /\ wire[1].kwargs["timeout"] = None
    /\ wire[1].kwargs["proxies"] = objs[call.self].proxies

\* C8: every request of a client built with a session, and of every
\* grouping obtained from it, goes through that session; without a session
\* every request goes through the requests module.
C8_RequestsUseSession ==
    Issued =>
        wire[1].client = IF objs[1].session = None THEN RequestsModule
                         ELSE objs[1].session

C8_Witness ==
    /\ Issued
    /\ objs[1].session # None
    /\ objs[call.self].cls = "ScheduledMessages"
    /\ wire[1].client = objs[1].session

\* C9: a call of _get/_post issues exactly one transport request, however
\* it ends.
C9_OneRequestPerCall ==
    Issued =>
        /\ Len(wire) = 1
        /\ Len(requested) = 1

C9_Witness ==
    /\ Finished
    /\ answer.kind = "raise"
    /\ outcome.kind = "raise"
    /\ Len(wire) = 1

\* C10: an error raised by the transport, or by the decoding of a body
\* that is not structured data, reaches the caller as it is: not as a
\* SlackError, and without an envelope.
C10_TransportErrorsPropagate ==
    /\ (Finished /\ answer.kind = "raise") =>
          /\ outcome = [kind |-> "raise", exc |-> answer.exc]
          /\ ~IsSubclass(outcome.exc.cls, SlackError)
          /\ resp = NoResp
    /\ (Finished /\ answer.kind = "response" /\ "json" \notin DOMAIN answer.raw.content) =>
          /\ outcome.kind = "raise"
          /\ outcome.exc.cls = ValueErrorCls
          /\ ~IsSubclass(outcome.exc.cls, SlackError)
          /\ resp = NoResp

C10_Witness ==
    /\ Finished
    /\ answer.kind = "response"
    /\ "json" \notin DOMAIN answer.raw.content
    /\ outcome.kind = "raise"
    /\ outcome.exc.cls = ValueErrorCls

\* the documentation link of a failure that reports a code: holds, and is
\* what is left of C5 where the server's answer names its error
DocLinkOfNamedFailure ==
    (ServerFailure /\ IsStr(ReportedError)) =>
        /\ outcome.kind = "raise"
        /\ \E n \in 1..MaxSegments :
              /\ call.path = PathOf(n)
              /\ Contains(outcome.exc.msg,
                          SLACK_DOC_BASE_URL \o <<SegmentNames[n], "#errors">>)

---------------------------------------------------------------------------
(* Properties of the endpoint methods                                      *)

\* an endpoint method has called _get/_post, which has issued its request
MethodIssued == method # NoMethod /\ Issued

\* the endpoint method on record
MethodOf(rec) == CHOOSE m \in Methods : m.cls = rec.cls /\ m.name = rec.name

IsDict(v) == DOMAIN v = {"dict"}

\* C11: every request issued by an endpoint method carries the client's
\* token in its query string (get) or body (post), whatever arguments and
\* per-call options the caller passes.
C11_RequestCarriesToken ==
    MethodIssued =>
        LET sent == wire[1].kwargs
            position == Position(wire[1].method)
        IN  /\ position \in DOMAIN sent
            /\ IsDict(sent[position])
            /\ "token" \in DOMAIN sent[position].dict
            /\ sent[position].dict["token"] = objs[method.self].token

\* the token is carried whenever the caller does not itself name the
\* option that holds the payload
TokenCarriedUnlessPositionNamed ==
    (MethodIssued /\ Position(wire[1].method) \notin DOMAIN method.kwargs) =>
        LET sent == wire[1].kwargs
            position == Position(wire[1].method)
        IN  /\ position \in DOMAIN sent
            /\ IsDict(sent[position])
            /\ "token" \in DOMAIN sent[position].dict
            /\ sent[position].dict["token"] = objs[method.self].token

\* an endpoint method has called _get/_post
MethodInvoked == method # NoMethod /\ invoked # <<>>

\* the parameters of the method on record that the caller supplied: the
\* required ones and the optional ones that are not None
Supplied ==
    LET m == MethodOf(method)
    IN  m.required \cup {q \in MethodParams(m) \ m.required : method.args[q] # None}

\* C12: the payload an endpoint method hands to _get/_post holds the token,
\* every required parameter and exactly the optional parameters the caller
\* supplied, each with the caller's value; an optional parameter left unset
\* is no key of it.
C12_PayloadHasSuppliedParameters ==
    MethodInvoked =>
        LET payload == invoked[1].payload.dict
        IN  /\ DOMAIN payload = {"token"} \cup Supplied
            /\ payload["token"] = objs[method.self].token
            /\ \A q \in Supplied : payload[q] = method.args[q]

\* what holds of every method: the token, the required parameters and the
\* supplied optional parameters that no statement converts are in the
\* payload with the caller's values, and a parameter left unset is no key
PlainParametersInPayload ==
    MethodInvoked =>
        LET m == MethodOf(method)
            payload == invoked[1].payload.dict
        IN  /\ {"token"} \cup (Supplied \ ConvertedParams(m)) \subseteq DOMAIN payload
            /\ DOMAIN payload \subseteq {"token"} \cup Supplied
            /\ payload["token"] = objs[method.self].token
            /\ \A q \in Supplied \ ConvertedParams(m) : payload[q] = method.args[q]

\* Remote.update was given indexable_file_contents and has put something
\* else under that key
WrongFileInPayload ==
    /\ MethodInvoked
    /\ method.name = "update"
    /\ "indexable_file_contents" \in DOMAIN invoked[1].payload.dict
    /\ invoked[1].payload.dict["indexable_file_contents"]
          # method.args["indexable_file_contents"]

\* a statement of the method on record converts a file that make_file
\* cannot open
ConversionFails ==
    LET m == MethodOf(method)
    IN  \E i \in DOMAIN m.converted :
           /\ method.args[m.converted[i].given] # None
           /\ MakeFile(method.args[m.converted[i].file]).kind = "raise"

\* the method on record has made exactly one _get/_post call, with its own
\* verb and path, and what that call returned or raised is what the method
\* returns or raises
OneCallHandedOn ==
    LET m == MethodOf(method)
    IN  /\ Len(invoked) = 1
        /\ invoked[1].op = m.verb
        /\ invoked[1].path = m.path
        /\ call.op = m.verb
        /\ call.path = m.path
        /\ call.self = method.self
        /\ Finished => /\ outcome # NoOutcome
                       /\ result = outcome
        /\ ~Finished => result = NoOutcome

\* C13: every endpoint method calls _get or _post exactly once with its
\* fixed path and returns the resulting envelope as it is; when _get/_post
\* raises, the method raises the same exception.
C13_OneCallReturnedVerbatim ==
    method # NoMethod => OneCallHandedOn

\* C13, amended: the same unless a file conversion of the method raises
\* first; then the method raises that error, having made no call.
C13_OneCallUnlessConversionFails ==
    method # NoMethod =>
        IF ConversionFails
        THEN /\ invoked = <<>>
             /\ wire = <<>>
             /\ result.kind = "raise"
             /\ result.exc.cls = FileNotFoundErrorCls
        ELSE OneCallHandedOn

C13_Witness ==
    /\ method # NoMethod
    /\ Len(invoked) = 1
    /\ Finished
    /\ result.kind = "return"
    /\ result.value = resp

---------------------------------------------------------------------------
(* Properties of clients and groupings                                     *)

\* the groupings obtained from objs[o]
Obtained(o) == {objs[o].cache[name] : name \in DOMAIN objs[o].cache}

\* objs[g] holds the token, session, proxies and timeout of objs[o]
SameConfiguration(o, g) ==
    /\ objs[g].token = objs[o].token
    /\ objs[g].session = objs[o].session
    /\ objs[g].proxies = objs[o].proxies
    /\ objs[g].timeout = objs[o].timeout

\* C14: every grouping obtained from a client, at any nesting depth, holds
\* the same token, session, proxies and timeout as that client.
C14_GroupingsShareConfiguration ==
    \A o \in 1..Len(objs) :
        \A g \in Obtained(o) :
            /\ objs[g].cls = Groupings(objs[o].cls)[CHOOSE name \in DOMAIN objs[o].cache :
                                                       objs[o].cache[name] = g]
            /\ SameConfiguration(o, g)
            /\ \A h \in Obtained(g) : SameConfiguration(o, h)

C14_Witness ==
    \E o \in 1..Len(objs) :
        /\ objs[o].cls = "SlackTime"
        /\ objs[o].session = Session(1)
        /\ objs[o].timeout = PyInt(60)
        /\ \E g \in Obtained(o) : \E h \in Obtained(g) :
              /\ objs[h].cls = "ScheduledMessages"
              /\ SameConfiguration(o, h)

\* the accessors that have built a grouping, as parent and name
Built ==
    {pn \in (1..Len(objs)) \X {"chat", "files", "remote", "scheduled_messages", "users"} :
        pn[2] \in DOMAIN objs[pn[1]].cache}

\* an access gives the grouping kept for its parent and name; no grouping
\* is kept under two parents or two names, and every grouping that was
\* constructed is kept: one construction for each parent and name
OneGroupingPerParentAndName ==
    /\ ret.op = "access" =>
          /\ ret.name \in DOMAIN objs[ret.self].cache
          /\ ret.value = objs[ret.self].cache[ret.name]
          /\ objs[ret.value].cls = Groupings(objs[ret.self].cls)[ret.name]
    /\ \A pn, qn \in Built :
          objs[pn[1]].cache[pn[2]] = objs[qn[1]].cache[qn[2]] => pn = qn
    /\ \A pn \in Built : objs[pn[1]].cache[pn[2]] \in 1..Len(objs)
    /\ Cardinality({g \in 1..Len(objs) : objs[g].cls # "SlackTime"}) = Cardinality(Built)

\* a grouping that is kept stays the one kept
GroupingsKept ==
    \A o \in 1..Len(objs) : \A name \in DOMAIN objs[o].cache :
        /\ o \in 1..Len(objs')
        /\ name \in DOMAIN objs'[o].cache
        /\ objs'[o].cache[name] = objs[o].cache[name]

\* C15: for a client and a grouping name the grouping is created on the
\* first access and every later access returns that same instance, and two
\* clients never share a grouping instance.
C15_GroupingBuiltOncePerParent ==
    /\ []OneGroupingPerParentAndName
    /\ [][GroupingsKept]_vars

\* a repeated access (it built nothing new) while two clients each keep
\* their own chat grouping
C15_Witness ==
    /\ ret.op = "access"
    /\ ret.value # Len(objs)
    /\ \E o, p \in 1..Len(objs) :
          /\ o # p
          /\ objs[o].cls = "SlackTime"
          /\ objs[p].cls = "SlackTime"
          /\ "chat" \in DOMAIN objs[o].cache
          /\ "chat" \in DOMAIN objs[p].cache
          /\ objs[o].cache["chat"] # objs[p].cache["chat"]

\* every object keeps its token, session, proxies and timeout
ConfigurationKept ==
    \A o \in 1..Len(objs) :
        /\ o \in 1..Len(objs')
        /\ objs'[o].cls = objs[o].cls
        /\ objs'[o].token = objs[o].token
        /\ objs'[o].session = objs[o].session
        /\ objs'[o].proxies = objs[o].proxies
        /\ objs'[o].timeout = objs[o].timeout

\* C16: after construction no make_url, _request, _get, _post, params read,
\* grouping access or endpoint method call, successful or failing, changes
\* a client's token, session, proxies or timeout.
C16_ConfigurationImmutable == [][ConfigurationKept]_vars

\* a client with a session and settings of its own, after a failed endpoint
\* method call on one of its groupings
C16_Witness ==
    /\ method # NoMethod
    /\ Finished
    /\ result.kind = "raise"
    /\ objs[1].session = Session(1)
    /\ objs[1].timeout = PyInt(60)
    /\ method.self \in Obtained(1)

\* C17: make_url(p) returns the base URL https://slack.com/api, then "/",
\* then p, the same string for the same p on every object, and it issues no
\* transport request and changes no state.
C17_MakeUrlIsBaseSlashPath ==
    /\ [](ret.op = "make_url" =>
            /\ ret.value = <<"https:", "/", "/", "slack.com", "/", "api", "/">> \o ret.path
            /\ pc = "idle"
            /\ requested = <<>>
            /\ wire = <<>>)
    /\ [][ret'.op = "make_url" => (objs' = objs /\ types' = types)]_vars

\* make_url of a path of several segments on a grouping
C17_Witness ==
    /\ ret.op = "make_url"
    /\ Len(ret.path) > 1
    /\ objs[ret.self].cls # "SlackTime"
    /\ Len(ret.value) = 7 + Len(ret.path)

\* C18: get_slack_time(env_var) fails, constructing no client and issuing
\* no transport request, when the variable is unset or empty; when it holds
\* a non-empty value the result is a new client whose token is that value,
\* again with no transport request.
C18_GetSlackTimeNeedsToken ==
    /\ [](ret.op = "get_slack_time" =>
            /\ requested = <<>>
            /\ wire = <<>>
            /\ IF ret.getenv \in {None, PyStr(<<>>)}
               THEN /\ ret.kind = "raise"
                    /\ ret.exc.cls = AssertionErrorCls
               ELSE /\ ret.kind = "return"
                    /\ ret.value = Len(objs)
                    /\ objs[ret.value].cls = "SlackTime"
                    /\ objs[ret.value].token = ret.getenv
                    /\ objs[ret.value].cache = <<>>)
    /\ [][(ret'.op = "get_slack_time" /\ ret'.kind = "raise") => objs' = objs]_vars
    /\ [][(ret'.op = "get_slack_time" /\ ret'.kind = "return" /\ ret' # ret) =>
             (Len(objs') = Len(objs) + 1 /\ SubSeq(objs', 1, Len(objs)) = objs)]_vars

\* the variable holds the empty string and get_slack_time has failed
C18_Witness ==
    /\ ret.op = "get_slack_time"
    /\ ret.getenv = PyStr(<<>>)
    /\ ret.kind = "raise"

---------------------------------------------------------------------------
(* Properties of the envelope and of the error types                       *)

\* C19: the error field of an envelope is present only on failure: for
\* every decoded body with ok == true the envelope's error is None,
\* whatever other fields the body has.
C19_ErrorOnlyOnFailure ==
    (resp # NoResp /\ resp.successful = TRUE) => resp.error = None

\* what holds of every envelope: its error is the body's error field, and
\* None when the body has none
EnvelopeErrorIsBodyError ==
    resp # NoResp =>
        resp.error = IF "error" \in DOMAIN resp.body THEN resp.body["error"] ELSE None

\* C20: there is one exception type for each error code: failures that
\* report the same code raise the same type, whichever call they end, and
\* failures that report different codes raise different types.
C20_OneTypePerCode ==
    \A i, j \in 1..Len(types) :
        (types[i].name = types[j].name) <=> (types[i] = types[j])

\* what holds of the types: each failure builds a type of its own, named
\* after its code and derived from SlackError of slack_time.api
TypePerFailure ==
    /\ \A i \in 1..Len(types) :
          /\ types[i].serial = i
          /\ types[i].bases = <<SlackError>>
    /\ (Finished /\ outcome.kind = "raise" /\ "serial" \in DOMAIN outcome.exc.cls) =>
          /\ outcome.exc.cls = types[Len(types)]
          /\ outcome.exc.cls.name = ReportedError.str

---------------------------------------------------------------------------
(* Properties of the conversion helpers                                    *)

\* C21: make_file returns an open binary read stream on the named file when
\* given a path as str or os.PathLike, returns the very same handle, in the
\* state it was given, when handed a stream, and raises a file-not-found
\* error, never an empty stream, when the path does not exist.
C21_MakeFileOpensOrHandsBack ==
    ret.op = "make_file" =>
        IF IsStr(ret.arg) \/ IsPathLike(ret.arg)
        THEN LET path == IF IsStr(ret.arg) THEN ret.arg.str ELSE ret.arg.PathLike
             IN  IF path \in ExistingFiles
                 THEN /\ ret.kind = "return"
                      /\ ret.value = [stream |-> path, mode |-> "rb", closed |-> FALSE]
                 ELSE /\ ret.kind = "raise"
                      /\ IsSubclass(ret.exc.cls, FileNotFoundErrorCls)
                      /\ "value" \notin DOMAIN ret
        ELSE IsStream(ret.arg) =>
                /\ ret.kind = "return"
                /\ ret.value = ret.arg
                /\ ret.value.closed = ret.arg.closed

\* an os.PathLike of an existing file has been opened
C21_Witness ==
    /\ ret.op = "make_file"
    /\ IsPathLike(ret.arg)
    /\ ret.kind = "return"
    /\ ret.value.mode = "rb"
    /\ ~ret.value.closed

\* the elements of a non-string iterable argument are all strings
IterableOfStrings(v) ==
    /\ ~IsStr(v)
    /\ IsIterable(v)
    /\ \A i \in 1..Len(Iterate(v)) : IsStr(Iterate(v)[i])

\* C22: comma_separated_string returns a string argument unchanged, so that
\* applying it to its own result changes nothing; it returns the elements of
\* a non-string iterable of strings joined by "," in iteration order; it
\* raises TypeError for what is neither a string nor an iterable.
C22_CommaSeparatedString ==
    ret.op = "comma_separated_string" =>
        /\ IsStr(ret.arg) =>
              /\ ret.kind = "return"
              /\ ret.value = ret.arg
        /\ ret.kind = "return" =>
              CommaSeparatedString(ret.value) = [kind |-> "return", value |-> ret.value]
        /\ IterableOfStrings(ret.arg) =>
              LET items == Iterate(ret.arg)
                  n == Len(items)
              IN  /\ ret.kind = "return"
                  /\ IsStr(ret.value)
                  /\ n = 0 => ret.value.str = <<>>
                  /\ n = 1 => ret.value.str = items[1].str
                  /\ n = 2 => ret.value.str = items[1].str \o <<",">> \o items[2].str
                  /\ n > 2 =>
                        ret.value.str =
                            JoinTexts(<<",">>, [i \in 1..(n - 1) |-> items[i].str])
                                \o <<",">> \o items[n].str
        /\ ~IsIterable(ret.arg) =>
              /\ ret.kind = "raise"
              /\ ret.exc.cls = TypeErrorCls
              /\ "value" \notin DOMAIN ret

\* three strings, one of them holding a comma, have been joined
C22_Witness ==
    /\ ret.op = "comma_separated_string"
    /\ ret.arg = PyTuple(<<PyStr(<<"a">>), PyStr(<<"b">>), PyStr(<<"c", ",", "d">>)>>)
    /\ ret.kind = "return"
    /\ ret.value = PyStr(<<"a", ",", "b", ",", "c", ",", "d">>)

\* C23: make_json_encoded returns a string argument unchanged, returns the
\* JSON serialization of a list or dict argument, and raises TypeError,
\* returning nothing, for every other argument: integer, float, tuple, set,
\* boolean, bytes.
C23_MakeJsonEncoded ==
    ret.op = "make_json_encoded" =>
        /\ IsStr(ret.arg) =>
              /\ ret.kind = "return"
              /\ ret.value = ret.arg
        /\ (DOMAIN ret.arg \in {{"list"}, {"dict"}} /\ Serializable(ret.arg)) =>
              /\ ret.kind = "return"
              /\ ret.value = PyStr(JsonText(ret.arg))
        /\ ret.arg = PyList(<<PyInt(1), PyInt(2), PyInt(3)>>) =>
              ret.value = PyStr(<<"[", "1", ", ", "2", ", ", "3", "]">>)
        /\ ret.arg = PyDict("a" :> PyStr(<<"b">>)) =>
              ret.value = PyStr(<<"{", "\"", "a", "\"", ": ", "\"", "b", "\"", "}">>)
        /\ DOMAIN ret.arg \notin {{"str"}, {"list"}, {"dict"}} =>
              /\ ret.kind = "raise"
              /\ ret.exc.cls = TypeErrorCls
              /\ "value" \notin DOMAIN ret

\* a tuple has been refused
C23_Witness ==
    /\ ret.op = "make_json_encoded"
    /\ DOMAIN ret.arg = {"tuple"}
    /\ ret.arg.tuple # <<>>
    /\ ret.kind = "raise"
    /\ ret.exc.cls = TypeErrorCls

---------------------------------------------------------------------------
(* Properties of the methods that convert files                            *)

\* C24: an error that a conversion helper raises inside an endpoint method
\* is raised before any transport request: whenever the helper raises, the
\* method has made no _get/_post call and no request, and raises that error.
C24_HelperRaisesBeforeRequest ==
    (method # NoMethod /\ ConversionFails) =>
        /\ pc = "idle"
        /\ invoked = <<>>
        /\ requested = <<>>
        /\ wire = <<>>
        /\ answer = NoAnswer
        /\ result.kind = "raise"
        /\ IsSubclass(result.exc.cls, OSErrorCls)

\* Files.upload was given a file path that does not exist
C24_Witness ==
    /\ method # NoMethod
    /\ method.name = "upload"
    /\ IsStr(method.args["file"])
    /\ method.args["content"] = None
    /\ result.kind = "raise"
    /\ wire = <<>>

\* the method on record, of class cls and named name, has issued its
\* request
IssuedBy(cls, name) ==
    /\ MethodIssued
    /\ method.cls = cls
    /\ method.name = name

\* the request of the method on record uploads the stream that make_file
\* gives for its argument param
Uploads(param) ==
    /\ "files" \in DOMAIN wire[1].kwargs
    /\ MakeFile(method.args[param]).kind = "return"
    /\ wire[1].kwargs["files"] = PyDict("file" :> MakeFile(method.args[param]).value)

\* C26: Files.remote.add called with a preview_image, path or open stream,
\* submits as the uploaded file of its request the byte stream obtained
\* from that preview_image, whether or not indexable_file_contents was
\* supplied too.
C26_AddUploadsPreviewImage ==
    (IssuedBy("Remote", "add") /\ method.args["preview_image"] # None) =>
        Uploads("preview_image")

\* what Files.remote.add does upload when given a preview_image: what
\* make_file gives for indexable_file_contents, None when that is unset
AddUploadsFileContents ==
    (IssuedBy("Remote", "add") /\ method.args["preview_image"] # None) =>
        Uploads("indexable_file_contents")

\* C27: Files.remote.update called with indexable_file_contents and/or
\* preview_image submits the byte streams obtained from those arguments,
\* the first under the payload key indexable_file_contents and the second
\* as the uploaded file, whatever the file argument is; that one is sent
\* only as the payload key file.
C27_UpdateSubmitsOwnStreams ==
    /\ (IssuedBy("Remote", "update") /\ method.args["indexable_file_contents"] # None) =>
          LET sent == wire[1].kwargs["params"].dict
          IN  /\ "indexable_file_contents" \in DOMAIN sent
              /\ sent["indexable_file_contents"]
                    = MakeFile(method.args["indexable_file_contents"]).value
    /\ (IssuedBy("Remote", "update") /\ method.args["preview_image"] # None) =>
          Uploads("preview_image")
    /\ (IssuedBy("Remote", "update") /\ method.args["file"] # None) =>
          wire[1].kwargs["params"].dict["file"] = method.args["file"]
    /\ (method # NoMethod /\ method.cls = "Remote" /\ method.name = "update"
          /\ invoked = <<>>) =>
          \E param \in {"indexable_file_contents", "preview_image"} :
              /\ method.args[param] # None
              /\ MakeFile(method.args[param]).kind = "raise"

\* what Files.remote.update does submit in both places: what make_file
\* gives for the file argument
UpdateSubmitsFile ==
    /\ (IssuedBy("Remote", "update") /\ method.args["indexable_file_contents"] # None) =>
          wire[1].kwargs["params"].dict["indexable_file_contents"]
              = MakeFile(method.args["file"]).value
    /\ (IssuedBy("Remote", "update") /\ method.args["preview_image"] # None) =>
          Uploads("file")

\* C28: an optional parameter supplied with a falsy value that is not None
\* (False, 0, the empty string, the empty list) is in the payload with that
\* value; only None counts as unset.
C28_FalsyValuesAreSent ==
    MethodInvoked =>
        LET m == MethodOf(method)
            payload == invoked[1].payload.dict
        IN  \A q \in m.optional :
                IF method.args[q] = None
                THEN q \notin DOMAIN payload
                ELSE /\ q \in DOMAIN payload
                     /\ payload[q] = method.args[q]

\* Chat.update has sent False, an empty list and the empty string
C28_Witness ==
    /\ IssuedBy("Chat", "update")
    /\ method.args["as_user"] = PyBool(FALSE)
    /\ method.args["attachments"] = PyList(<<>>)
    /\ method.args["text"] = PyStr(<<>>)
    /\ wire[1].kwargs["data"].dict["as_user"] = PyBool(FALSE)
    /\ wire[1].kwargs["data"].dict["attachments"] = PyList(<<>>)
    /\ wire[1].kwargs["data"].dict["text"] = PyStr(<<>>)

\* what a caller of _get/_post sees of an outcome: whether it returned or
\* raised, the raised type's name and bases and the message, the returned
\* envelope's body, successful and error
Observed(out) ==
    IF out.kind = "raise"
    THEN [kind |-> "raise", name |-> out.exc.cls.name, bases |-> out.exc.cls.bases,
          msg |-> out.exc.msg]
    ELSE [kind |-> "return", body |-> out.value.body,
          successful |-> out.value.successful, error |-> out.value.error]

\* the transport's answer, had it come with another status code and headers
Answered(status, headers) ==
    [id |-> answer.raw.id, status |-> status,
     content |-> IF headers = <<>> THEN [json |-> DecodedBody]
                 ELSE [json |-> DecodedBody, headers |-> headers]]

\* C29: the outcome of _get/_post depends on the decoded body only: had the
\* same body come with any other status code or header, the call would have
\* returned or raised the same; it returns exactly when ok is true, and the
\* type it raises is named by the body's error field.
C29_OutcomeIsFunctionOfBody ==
    (Decoded /\ call.op \in {"get", "post"}) =>
        /\ \A status \in Statuses, headers \in {<<>>, <<"Retry-After">>} :
               Observed(Outcome(call, Answered(status, headers), Len(types) + 1))
                   = Observed(outcome)
        /\ outcome.kind = "return" <=> DecodedBody["ok"] = TRUE
        /\ (outcome.kind = "raise" /\ IsStr(ReportedError)) =>
               outcome.exc.cls.name = ReportedError.str

\* a body with ok true has come with status 500 and a header and the call
\* returned; a body with ok false has come with status 200 and the call raised
C29_Witness ==
    /\ Decoded
    /\ call.op \in {"get", "post"}
    /\ \/ /\ answer.raw.status = 500
          /\ "headers" \in DOMAIN answer.raw.content
          /\ DecodedBody["ok"] = TRUE
          /\ outcome.kind = "return"
       \/ /\ answer.raw.status = 200
          /\ DecodedBody["ok"] = FALSE
          /\ outcome.kind = "raise"

\* all that the threads' accesses returned
AllSeen ==
    UNION {{threads.of[t].seen[i] : i \in 1..Len(threads.of[t].seen)} :
           t \in DOMAIN threads.of}

\* the groupings constructed for the name of the one client
Constructed(name) ==
    {g \in 1..Len(objs) : objs[g].cls = Groupings("SlackTime")[name]}

\* C25: under any interleaving of concurrent first accesses of one grouping
\* of one client the grouping is constructed at most once, and every
\* thread and every later access gets the same instance.
C25_GroupingBuiltOnceUnderRaces ==
    /\ \A name \in ThreadNames : Cardinality(Constructed(name)) <= 1
    /\ \A a, b \in AllSeen :
          (a.self = b.self /\ a.name = b.name) => a.value = b.value

\* where the descriptor takes its lock, the claim's statement holds
GuardedGroupingBuiltOnce ==
    threads.guarded => C25_GroupingBuiltOnceUnderRaces

\* two threads have each been handed a different grouping for one name
RacedGroupings ==
    \E a, b \in AllSeen : a.self = b.self /\ a.name = b.name /\ a.value # b.value

====
